---- MODULE Spec2Model ----
(***************************************************************************)
(* octapy/tools.py: get_drifter_data and run_skill_analysis.               *)
(*                                                                         *)
(* Timestamps are absolute hours.  A position is a (lat, lon) pair of      *)
(* integers and Geod.line_length is the sum of the distances between       *)
(* consecutive points, with a metric on the integer grid standing in for   *)
(* the WGS84 geodesic.  Python's 0-based indices are 1-based here, so      *)
(* times[0] is times[1] and x[-1] is x[Len(x)].                            *)
(***************************************************************************)
EXTENDS Integers, Sequences, FiniteSets, TLC

\* ------------------------------------------------------------------ bounds
MaxRows == 3
MaxSteps == 3
MaxRuns == 3
MaxParticles == 2

\* ------------------------------------------------------- input value sets
Hours == {0, 1, 2}
Lats == {0, 1, 2}
Lons == {0, 1}
DrifterIds == {1, 2}
HoursPerDay == 24

\* ----------------------------------------------------------------- helpers
Range(s) == {s[k] : k \in 1..Len(s)}

SeqsUpTo(S, n) == UNION {[1..k -> S] : k \in 0..n}

Abs(x) == IF x < 0 THEN -x ELSE x

RECURSIVE MaskCount(_)
MaskCount(mask) ==
    IF Len(mask) = 0 THEN 0
    ELSE (IF mask[1] THEN 1 ELSE 0) + MaskCount(Tail(mask))

\* values[mask]: numpy boolean-mask indexing, the selected entries in order
RECURSIVE BoolIndex(_, _)
BoolIndex(values, mask) ==
    IF Len(values) = 0 THEN <<>>
    ELSE (IF mask[1] THEN <<values[1]>> ELSE <<>>)
         \o BoolIndex(Tail(values), Tail(mask))

\* pd.to_datetime({'year', 'month', 'day', 'hour'}) within one month
ToDatetime(row) == row.day * HoursPerDay + row.hour

\* pd.Timedelta of one unit, in hours
UnitHours(unit) == IF unit = "days" THEN HoursPerDay ELSE 1

\* rootgrp['time'].units.split(' since ') unpacks into exactly two parts
UnitsSplit(run) == run.units # "none"

\* pd.Timestamp(epoch) + pd.TimedeltaIndex(times, unit=units)
Times(run) ==
    [k \in 1..Len(run.time) |-> run.epoch + run.time[k] * UnitHours(run.units)]

\* Series.isin(values): one boolean per element
IsIn(series, values) == [k \in 1..Len(series) |-> series[k] \in values]

Datetimes(data) == [k \in 1..Len(data) |-> data[k].datetime]
Column(data, col) == [k \in 1..Len(data) |-> data[k][col]]

DriftIndices(data, tms) == IsIn(Datetimes(data), Range(tms))

ModelIndicesUnmasked(tms, data) == [k \in 1..Len(tms) |-> TRUE]
ModelIndices(tms, data) == IsIn(tms, Range(Datetimes(data)))

\* rootgrp['lat'][:, model_indices]
SliceColumns(matrix, mask) ==
    [p \in 1..Len(matrix) |-> BoolIndex(matrix[p], mask)]

\* the distance between two points, in metres
Dist(lon1, lat1, lon2, lat2) == Abs(lon1 - lon2) + Abs(lat1 - lat2)

\* geod.line_length(lons, lats)
RECURSIVE LineLength(_, _)
LineLength(lons, lats) ==
    IF Len(lons) < 2 THEN 0
    ELSE Dist(lons[1], lats[1], lons[2], lats[2])
         + LineLength(Tail(lons), Tail(lats))

\* ------------------------------------------------------------------ floats
\* a float is the exact ratio num/den with den > 0; nan is not a ratio
Fin(n, d) == [kind |-> "fin", num |-> n, den |-> d]
NaN == [kind |-> "nan", num |-> 0, den |-> 1]

\* sep_distance / traj_len, for traj_len # 0.  Geod.line_length returns
\* Python floats, whose division by 0 raises (ZeroDivision below).
Divide(x, y) == Fin(x, y)

\* 1 - c
OneMinus(c) == Fin(c.den - c.num, c.den)

Maximum0Unclamped(x) == x
\* np.maximum(0, x)
Maximum0(x) == IF x.num < 0 THEN Fin(0, 1) ELSE x

\* c = sep_distance / traj_len; s = np.maximum(0, 1 - c)
SkillScore(sep_distance, traj_len) ==
    Maximum0(OneMinus(Divide(sep_distance, traj_len)))

SkillRecordLastTime(tms, traj_len, sep_distance, s) ==
    <<tms[Len(tms)], traj_len, sep_distance, s>>
\* np.array([times[0], traj_len, sep_distance, s])
SkillRecord(tms, traj_len, sep_distance, s) ==
    <<tms[1], traj_len, sep_distance, s>>

\* an entry of np.empty(..., dtype='O') that was never assigned
Unwritten == <<>>

\* np.empty((len(skill_files), num_particles, 4), dtype='O')
EmptySkillData(nruns, nparticles) ==
    [r \in 1..nruns |-> [p \in 1..nparticles |-> Unwritten]]

FirstParticleSkipped == 1 + 1
\* range(0, num_particles) starts at the first particle
FirstParticle == 1

\* ------------------------------------------------------------------- state
VARIABLES
    drifter_file,   \* the rows of the drifter .csv, in file order
    drifter_id,     \* the drifter to select
    date_range,     \* the timestamps to evaluate against
    skill_files,    \* the model output files, one per run
    pc,             \* the statement run_skill_analysis is at
    error,          \* the exception that left run_skill_analysis, if any
    drifter_data,   \* the selected drifter rows, with their datetime
    num_particles,
    skill_data,     \* [run][particle] -> Unwritten or a 4-tuple
    writes,         \* [run][particle] -> how often the entry was assigned
    i,              \* the run of the outer loop
    j,              \* the particle of the inner loop
    times,
    drift_indices,
    drifter_lats,
    drifter_lons,
    model_indices,
    model_lats,
    model_lons

inputs == <<drifter_file, drifter_id, date_range, skill_files>>
run_locals == <<times, drift_indices, drifter_lats, drifter_lons,
                model_indices, model_lats, model_lons>>
vars == <<drifter_file, drifter_id, date_range, skill_files, pc, error,
          drifter_data, num_particles, skill_data, writes, i, j, times,
          drift_indices, drifter_lats, drifter_lons, model_indices,
          model_lats, model_lons>>

NoError == [type |-> "none", line |-> 0, run |-> 0]
Raise(type, line, run) == [type |-> type, line |-> line, run |-> run]

\* ------------------------------------------------------------------ inputs
DrifterRowAt(id, hour, lat, lon) ==
    [id |-> id, day |-> 1, hour |-> hour, lat |-> lat, lon |-> lon]
DrifterRow(id, hour, lat) == DrifterRowAt(id, hour, lat, 0)

\* a particle released at latitude p - 1 that moves one unit north per step
Track(p, n) == [k \in 1..n |-> (k - 1) + (p - 1)]

ZeroMatrix(lat) == [p \in 1..Len(lat) |-> [k \in 1..Len(lat[p]) |-> 0]]

RunFile(units, epoch, time, lat) ==
    [readable |-> TRUE, units |-> units, epoch |-> epoch, time |-> time,
     lat |-> lat, lon |-> ZeroMatrix(lat)]

Tracks(n, steps) == [p \in 1..n |-> Track(p, steps)]

\* hourly output that starts with the first drifter observation
HourlyRun(n) == RunFile("hours", HoursPerDay, <<0, 1, 2>>, Tracks(n, 3))
\* hourly output of the following day
LaterRun(n) == RunFile("hours", 2 * HoursPerDay, <<0, 1, 2>>, Tracks(n, 3))
\* daily output
DailyRun(n) == RunFile("days", 0, <<1, 2>>, Tracks(n, 2))
\* a file that cannot be opened
UnreadableRun ==
    [readable |-> FALSE, units |-> "none", epoch |-> 0, time |-> <<>>,
     lat |-> <<>>, lon |-> <<>>]
\* a file whose time units do not read "<unit> since <epoch>"
BadUnitsRun == RunFile("none", 0, <<0, 1, 2>>, Tracks(1, 3))

RunKinds ==
    {UnreadableRun, BadUnitsRun}
    \cup {HourlyRun(n) : n \in 0..MaxParticles}
    \cup {LaterRun(n) : n \in 0..MaxParticles}
    \cup {DailyRun(n) : n \in 0..MaxParticles}

AllDates == {HoursPerDay + h : h \in Hours}

\* a drifter observed every hour, moving one unit north per hour
HourlyDrifter == <<DrifterRow(1, 0, 0), DrifterRow(1, 1, 1), DrifterRow(1, 2, 2)>>
\* a drifter observed every hour at the one position (lat, lon)
MooredDrifter(lat, lon) ==
    <<DrifterRowAt(1, 0, lat, lon), DrifterRowAt(1, 1, lat, lon),
      DrifterRowAt(1, 2, lat, lon)>>

InitWith(file, id, dates, files) ==
    /\ drifter_file = file
    /\ drifter_id = id
    /\ date_range = dates
    /\ skill_files = files
    /\ pc = "get_drifter_data"
    /\ error = NoError
    /\ drifter_data = <<>>
    /\ num_particles = 0
    /\ skill_data = <<>>
    /\ writes = <<>>
    /\ i = 0
    /\ j = 0
    /\ times = <<>>
    /\ drift_indices = <<>>
    /\ drifter_lats = <<>>
    /\ drifter_lons = <<>>
    /\ model_indices = <<>>
    /\ model_lats = <<>>
    /\ model_lons = <<>>

\* drifter rows in any order and with repeats, against any time grid
AlignInputs ==
    \E file \in SeqsUpTo({DrifterRow(1, h, h) : h \in Hours}, MaxRows),
       time \in SeqsUpTo(Hours, MaxSteps) :
        InitWith(file, 1, AllDates,
                 <<RunFile("hours", HoursPerDay, time, Tracks(1, Len(time)))>>)

\* rows of several drifters, and date ranges that drop observations
FilterInputs ==
    \E file \in SeqsUpTo({DrifterRow(d, h, h) : d \in DrifterIds, h \in Hours},
                         MaxRows),
       dates \in {AllDates, AllDates \ {HoursPerDay}, {}} :
        InitWith(file, 1, dates, <<HourlyRun(1)>>)

\* any particle track, against a drifter at any position
ScoreInputs ==
    \E lat \in Lats, lon \in Lons, n \in 0..MaxSteps :
        \E track \in [1..n -> Lats] :
            InitWith(MooredDrifter(lat, lon), 1, AllDates,
                     <<RunFile("hours", HoursPerDay,
                               [k \in 1..n |-> k - 1], <<track>>)>>)

\* any list of runs: unreadable, malformed, of different particle counts
RunsInputs ==
    \E files \in SeqsUpTo(RunKinds, MaxRuns) :
        InitWith(HourlyDrifter, 1, AllDates, files)

Init == AlignInputs \/ FilterInputs \/ ScoreInputs \/ RunsInputs

\* -------------------------------------------------------- get_drifter_data
\* the rows of drifter_id with their datetime, in the order of the file
GetDrifterData(file, id) ==
    LET dated == [k \in 1..Len(file) |->
                     [id |-> file[k].id, datetime |-> ToDatetime(file[k]),
                      lat |-> file[k].lat, lon |-> file[k].lon]]
    IN SelectSeq(dated, LAMBDA row : row.id = id)

\* drifter_data[drifter_data['datetime'].isin(date_range)]
FilterDates(data, dates) == SelectSeq(data, LAMBDA row : row.datetime \in dates)

\* ------------------------------------------------------ run_skill_analysis
\* drifter_data = get_drifter_data(drifter_file, drifter_id)
ReadDrifter ==
    /\ pc = "get_drifter_data"
    /\ drifter_data' = GetDrifterData(drifter_file, drifter_id)
    /\ pc' = "filter_dates"
    /\ UNCHANGED <<inputs, error, num_particles, skill_data, writes, i, j,
                   run_locals>>

\* drifter_data = drifter_data[drifter_data['datetime'].isin(date_range)]
SelectDates ==
    /\ pc = "filter_dates"
    /\ drifter_data' = FilterDates(drifter_data, date_range)
    /\ pc' = "query_particles"
    /\ UNCHANGED <<inputs, error, num_particles, skill_data, writes, i, j,
                   run_locals>>

\* the first file gives the number of particles; the result is allocated
QueryParticles ==
    /\ pc = "query_particles"
    /\ Len(skill_files) > 0
    /\ skill_files[1].readable
    /\ num_particles' = Len(skill_files[1].lat)
    /\ skill_data' = EmptySkillData(Len(skill_files), num_particles')
    /\ writes' = [r \in 1..Len(skill_files) |-> [p \in 1..num_particles' |-> 0]]
    /\ i' = 1
    /\ pc' = "open_run"
    /\ UNCHANGED <<inputs, error, drifter_data, j, run_locals>>

\* skill_files[0] of an empty list, or a first file that cannot be opened
QueryParticlesRaises ==
    /\ pc = "query_particles"
    /\ \/ /\ Len(skill_files) = 0
          /\ error' = Raise("IndexError", 272, 0)
       \/ /\ Len(skill_files) > 0
          /\ ~skill_files[1].readable
          /\ error' = Raise("OSError", 272, 1)
    /\ pc' = "raised"
    /\ UNCHANGED <<inputs, drifter_data, num_particles, skill_data, writes,
                   i, j, run_locals>>

\* open run i, convert its times, slice the drifter and the model positions
OpenRun ==
    /\ pc = "open_run"
    /\ i <= Len(skill_files)
    /\ skill_files[i].readable
    /\ UnitsSplit(skill_files[i])
    /\ times' = Times(skill_files[i])
    /\ drift_indices' = DriftIndices(drifter_data, times')
    /\ drifter_lats' = BoolIndex(Column(drifter_data, "lat"), drift_indices')
    /\ drifter_lons' = BoolIndex(Column(drifter_data, "lon"), drift_indices')
    /\ model_indices' = ModelIndices(times', drifter_data)
    /\ model_lats' = SliceColumns(skill_files[i].lat, model_indices')
    /\ model_lons' = SliceColumns(skill_files[i].lon, model_indices')
    /\ j' = FirstParticle
    /\ pc' = "score_particle"
    /\ UNCHANGED <<inputs, error, drifter_data, num_particles, skill_data,
                   writes, i>>

\* run i cannot be opened, or its time units do not split in two
OpenRunRaises ==
    /\ pc = "open_run"
    /\ i <= Len(skill_files)
    /\ \/ /\ ~skill_files[i].readable
          /\ error' = Raise("OSError", 279, i)
       \/ /\ skill_files[i].readable
          /\ ~UnitsSplit(skill_files[i])
          /\ error' = Raise("ValueError", 280, i)
    /\ pc' = "raised"
    /\ UNCHANGED <<inputs, drifter_data, num_particles, skill_data, writes,
                   i, j, run_locals>>

\* the endpoints and the path of particle j can be read
Scorable ==
    /\ j <= Len(model_lons)
    /\ Len(drifter_lons) > 0
    /\ Len(model_lons[j]) > 0

TrajLen == LineLength(model_lons[j], model_lats[j])

SepDistance ==
    LineLength(<<drifter_lons[Len(drifter_lons)],
                 model_lons[j][Len(model_lons[j])]>>,
               <<drifter_lats[Len(drifter_lats)],
                 model_lats[j][Len(model_lats[j])]>>)

\* score particle j of run i and store its record
ScoreParticle ==
    /\ pc = "score_particle"
    /\ j <= num_particles
    /\ Scorable
    /\ TrajLen # 0
    /\ skill_data' = [skill_data EXCEPT ![i][j] =
           SkillRecord(times, TrajLen, SepDistance,
                       SkillScore(SepDistance, TrajLen))]
    /\ writes' = [writes EXCEPT ![i][j] = @ + 1]
    /\ j' = j + 1
    /\ UNCHANGED <<inputs, pc, error, drifter_data, num_particles, i,
                   run_locals>>

\* model_lons[j] of a run with fewer particles than the first run
ParticleIndexError ==
    /\ pc = "score_particle"
    /\ j <= num_particles
    /\ j > Len(model_lons)
    /\ error' = Raise("IndexError", 295, i)
    /\ pc' = "raised"
    /\ UNCHANGED <<inputs, drifter_data, num_particles, skill_data, writes,
                   i, j, run_locals>>

\* drifter_lons[-1] or model_lons[j, -1] of an empty slice
EndpointIndexError ==
    /\ pc = "score_particle"
    /\ j <= num_particles
    /\ j <= Len(model_lons)
    /\ ~Scorable
    /\ error' = Raise("IndexError", 297, i)
    /\ pc' = "raised"
    /\ UNCHANGED <<inputs, drifter_data, num_particles, skill_data, writes,
                   i, j, run_locals>>

\* sep_distance / traj_len with a trajectory length of 0
ZeroDivision ==
    /\ pc = "score_particle"
    /\ j <= num_particles
    /\ Scorable
    /\ TrajLen = 0
    /\ error' = Raise("ZeroDivisionError", 300, i)
    /\ pc' = "raised"
    /\ UNCHANGED <<inputs, drifter_data, num_particles, skill_data, writes,
                   i, j, run_locals>>

\* the inner loop is over: on to the next run
NextRun ==
    /\ pc = "score_particle"
    /\ j > num_particles
    /\ i' = i + 1
    /\ pc' = "open_run"
    /\ UNCHANGED <<inputs, error, drifter_data, num_particles, skill_data,
                   writes, j, run_locals>>

\* return skill_data
Return ==
    /\ pc = "open_run"
    /\ i > Len(skill_files)
    /\ pc' = "returned"
    /\ UNCHANGED <<inputs, error, drifter_data, num_particles, skill_data,
                   writes, i, j, run_locals>>

Next ==
    \/ ReadDrifter
    \/ SelectDates
    \/ QueryParticles
    \/ QueryParticlesRaises
    \/ OpenRun
    \/ OpenRunRaises
    \/ ScoreParticle
    \/ ParticleIndexError
    \/ EndpointIndexError
    \/ ZeroDivision
    \/ NextRun
    \/ Return

Spec == Init /\ [][Next]_vars

\* ------------------------------------------------------------ properties
Written(r, p) == Len(skill_data[r][p]) > 0

Cells ==
    {c \in (1..Len(skill_data)) \X (0..MaxParticles + 1) :
        c[2] \in 1..Len(skill_data[c[1]])}

WrittenCells == {c \in Cells : Written(c[1], c[2])}

Record(c) == skill_data[c[1]][c[2]]

SetMin(S) == CHOOSE x \in S : \A y \in S : x <= y
SetMax(S) == CHOOSE x \in S : \A y \in S : x >= y

NoRepeats(s) == \A a, b \in 1..Len(s) : s[a] = s[b] => a = b
Chronological(s) == \A a, b \in 1..Len(s) : a < b => s[a] <= s[b]

\* the timestamps run r shares with the observed trajectory
Common(r) == Range(Times(skill_files[r])) \cap Range(Datetimes(drifter_data))

\* the points of run r that its model mask selects
AlignedPoints(r) == MaskCount(ModelIndices(Times(skill_files[r]), drifter_data))
\* the observations that the drifter mask of run r selects
AlignedObservations(r) ==
    MaskCount(DriftIndices(drifter_data, Times(skill_files[r])))

\* C1: a record with a trajectory length above 0 holds the skill score
\* max(0, 1 - separation_distance / trajectory_length), which is in [0, 1].
C1_ScoreInUnitInterval ==
    \A c \in WrittenCells :
        LET rec == Record(c)
            s == rec[4]
        IN (rec[2] > 0 /\ rec[3] >= 0) =>
              /\ s.kind = "fin"
              /\ s.den > 0
              /\ 0 <= s.num
              /\ s.num <= s.den
              /\ s.num * rec[2] =
                    s.den * (IF rec[2] - rec[3] > 0 THEN rec[2] - rec[3] ELSE 0)

\* a particle that ends further from the drifter than it travelled: the
\* score is clamped to 0
C1_Witness ==
    \E c \in WrittenCells :
        /\ Record(c)[2] > 0
        /\ Record(c)[3] > Record(c)[2]
        /\ Record(c)[4] = Fin(0, 1)

\* C2: of a run with fewer than 2 aligned timestamps every record has the
\* trajectory length 0 and a not-a-number score, and no division by zero
\* leaves run_skill_analysis.
C2_SingleTimestampIsNaN ==
    /\ error.type # "ZeroDivisionError"
    /\ \A c \in WrittenCells :
          AlignedPoints(c[1]) < 2 =>
              Record(c)[2] = 0 /\ Record(c)[4].kind = "nan"

\* C3: the two masks of a run select the same number of points and the
\* same timestamps, and the sliced series have the same length.
C3_MasksAgree ==
    pc = "score_particle" =>
        /\ MaskCount(drift_indices) = MaskCount(model_indices)
        /\ Range(BoolIndex(Datetimes(drifter_data), drift_indices))
              = Range(BoolIndex(times, model_indices))
        /\ \A p \in 1..Len(model_lats) : Len(model_lats[p]) = Len(drifter_lats)

\* C3, amended: the two masks select the same timestamps; they select the
\* same number of points, and the sliced series have the same length, when
\* neither the observed series nor the time grid repeats a timestamp.
C3_MasksAgreeWithoutRepeats ==
    pc = "score_particle" =>
        /\ Range(BoolIndex(Datetimes(drifter_data), drift_indices))
              = Range(BoolIndex(times, model_indices))
        /\ (NoRepeats(Datetimes(drifter_data)) /\ NoRepeats(times)) =>
              /\ MaskCount(drift_indices) = MaskCount(model_indices)
              /\ \A p \in 1..Len(model_lats) :
                    Len(model_lats[p]) = Len(drifter_lats)

\* a run without repeats that shares two timestamps with the drifter and
\* has one the drifter lacks
C3_Witness ==
    /\ pc = "score_particle"
    /\ NoRepeats(Datetimes(drifter_data))
    /\ NoRepeats(times)
    /\ MaskCount(drift_indices) >= 2
    /\ MaskCount(model_indices) < Len(times)
    /\ Len(model_lats) > 0

\* C4: the start_time of a record of run r is the earliest timestamp that
\* is both in the observed trajectory and in the time grid of run r (stated
\* for a time grid and an observed trajectory in chronological order).
C4_StartIsFirstAligned ==
    \A c \in WrittenCells :
        (Chronological(Times(skill_files[c[1]]))
            /\ Chronological(Datetimes(drifter_data)))
        => Record(c)[1] = SetMin(Common(c[1]))

\* C4, amended: the start_time of a record of run r is the first timestamp
\* of the time grid of run r.
C4_StartIsFirstGridTime ==
    \A c \in WrittenCells : Record(c)[1] = Times(skill_files[c[1]])[1]

\* a record of a run whose time grid starts before the first observation
C4_Witness ==
    \E c \in WrittenCells :
        /\ Times(skill_files[c[1]])[1] < SetMin(Common(c[1]))
        /\ Record(c)[1] = Times(skill_files[c[1]])[1]

\* C5: the separation distance of a record is the distance between the
\* observation and the particle's position at the latest aligned timestamp,
\* for any row order of the drifter file (stated for a time grid in
\* chronological order).
C5_SeparationAtLatestCommonTime ==
    \A c \in WrittenCells :
        LET run == skill_files[c[1]]
            t == SetMax(Common(c[1]))
        IN Chronological(Times(run)) =>
              \E k \in 1..Len(drifter_data), m \in 1..Len(run.time) :
                  /\ drifter_data[k].datetime = t
                  /\ Times(run)[m] = t
                  /\ Record(c)[3] =
                        Dist(drifter_data[k].lon, drifter_data[k].lat,
                             run.lon[c[2]][m], run.lat[c[2]][m])

\* C6: a run that shares no timestamp with the observed trajectory does not
\* make run_skill_analysis fail.
C6_NoCommonTimeStillCompletes ==
    \A r \in 1..Len(skill_files) :
        (pc = "raised" /\ error.run = r /\ error.line = 297)
        => Common(r) # {}

\* C7: when a run cannot be read or parsed, every other run is still
\* evaluated.
C7_OtherRunsStillEvaluated ==
    (pc = "raised" /\ error.type \in {"OSError", "ValueError"}) =>
        \A r \in 1..Len(skill_files) :
            (r # error.run /\ skill_files[r].readable
                /\ UnitsSplit(skill_files[r]))
            => /\ r <= Len(skill_data)
               /\ \A p \in 1..Len(skill_data[r]) : Written(r, p)

\* C8: the result has one entry per run and per particle of that run, each
\* a 4-tuple assigned exactly once.
C8_EveryParticleWrittenOnce ==
    /\ \A c \in Cells : writes[c[1]][c[2]] <= 1
    /\ pc = "returned" =>
          /\ Len(skill_data) = Len(skill_files)
          /\ \A r \in 1..Len(skill_data) :
                /\ Len(skill_data[r]) = Len(skill_files[r].lat)
                /\ \A p \in 1..Len(skill_data[r]) :
                      Len(skill_data[r][p]) = 4 /\ writes[r][p] = 1

\* C8, amended: the result has one entry per run and per particle of the
\* first run, each a 4-tuple assigned exactly once.
C8_FirstRunShapeWrittenOnce ==
    /\ \A c \in Cells : writes[c[1]][c[2]] <= 1
    /\ pc = "returned" =>
          /\ Len(skill_data) = Len(skill_files)
          /\ \A r \in 1..Len(skill_data) :
                /\ Len(skill_data[r]) = Len(skill_files[1].lat)
                /\ \A p \in 1..Len(skill_data[r]) :
                      Len(skill_data[r][p]) = 4 /\ writes[r][p] = 1

\* a result of two runs, the second with more particles than the first
C8_Witness ==
    /\ pc = "returned"
    /\ Len(skill_files) >= 2
    /\ num_particles >= 1
    /\ Len(skill_files[2].lat) > num_particles
    /\ \A c \in Cells : Written(c[1], c[2])

\* C9: no record is computed for a run whose two masks select different
\* numbers of points.
C9_MismatchRaisesAlignmentError ==
    \A c \in WrittenCells : AlignedObservations(c[1]) = AlignedPoints(c[1])

\* C10: the observed trajectory is non-decreasing in timestamp once
\* get_drifter_data has returned it.
C10_ObservedIsChronological ==
    pc # "get_drifter_data" => Chronological(Datetimes(drifter_data))

====
